---- MODULE Spec2Model ----
(***************************************************************************)
(* Model of the personal-news-feed backend: the RSSAggregator class        *)
(* (feed aggregation, deduplication, recency sort, search, cache) and the  *)
(* Express server around it (startup, /search, /refresh, refresh timer).   *)
(*                                                                         *)
(* Text values that the code inspects character by character (titles,      *)
(* snippets, categories, keywords, queries, request parameters) are        *)
(* sequences of one-character strings.  Values that are only compared or   *)
(* copied (urls, source names, date strings) are plain strings.            *)
(* Date values are their time value in milliseconds; the time value of an  *)
(* Invalid Date is NaN.                                                    *)
(***************************************************************************)
EXTENDS Integers, Sequences, FiniteSets, TLC

VARIABLES
    feeds,        \* this.feeds
    articles,     \* this.articles, the live collection
    lastUpdate,   \* this.lastUpdate
    cacheFile,    \* contents of ./articles-cache.json
    now,          \* the clock, Date.now()
    ticks,        \* how many times the clock has advanced
    initPc,       \* position of initialize() and of the listen callback
    runs,         \* the invocations of "fetchAllFeeds(); saveToFile()" in flight
    started,      \* how many refresh requests (manual or timer) were accepted
    request,      \* arguments of the last search call
    response,     \* result of the last search call
    settings,        \* the browser page: settings
    loadedArticles,  \* the browser page: loadedArticles, a Set of urls
    currentPage,     \* the browser page: currentPage
    isLoading,       \* the browser page: isLoading
    loads,           \* the executions of loadFeed past their first statement
    feedElement,     \* document.getElementById('feed'): the pages it shows
    lastCall         \* how the last call of loadFeed went

serverVars == <<feeds, articles, lastUpdate, cacheFile, now, ticks, initPc, runs,
                started, request, response>>

clientVars == <<settings, loadedArticles, currentPage, isLoading, loads, feedElement,
                lastCall>>

vars == <<serverVars, clientVars>>

----------------------------------------------------------------------------
(* Bounds of the model *)

\* invocations of fetchAllFeeds that may be in flight together
MaxRuns == 2
\* refresh requests (manual or timer) accepted in one behaviour
MaxRefreshes == 2
\* advances of the clock in one behaviour
MaxTicks == 1
\* largest limit and offset of the search calls
MaxLimit == 2
MaxOffset == 2
\* executions of loadFeed that may be in flight together
MaxLoads == 2
\* pages one feed view may grow to
MaxPages == 2
\* largest articlesPerInterest and totalArticles of the settings
MaxPerInterest == 2
MaxTotal == 3

----------------------------------------------------------------------------
(* Numbers and dates *)

\* time value of an Invalid Date; also what parseInt gives for no digits
NaN == -1
\* null (lastUpdate before the first refresh, JSON null)
Null == -2

MsPerDay == 1000 * 60 * 60 * 24

\* the default limit of the /search handler and of search()
DefaultLimit == 20
\* cleanDescription's length limit
SnippetMax == 300

\* the clock advances in steps of one day (an abstraction of elapsed time)
TickMs == MsPerDay
StartTime == 9 * MsPerDay

\* new Date(string): the date strings the feeds of the model carry;
\* any other string does not parse
DateParse(s) ==
    CASE s = "1970-01-02" -> 1 * MsPerDay
      [] s = "1970-01-06" -> 5 * MsPerDay
      [] s = "1970-01-10" -> 9 * MsPerDay
      [] OTHER -> NaN

----------------------------------------------------------------------------
(* Text *)

Min(a, b) == IF a < b THEN a ELSE b

UpperToLower ==
    [c \in {"A", "I", "C", "U", "M", "G", "S", "R"} |->
        CASE c = "A" -> "a" [] c = "I" -> "i" [] c = "C" -> "c" [] c = "U" -> "u"
          [] c = "M" -> "m" [] c = "G" -> "g" [] c = "S" -> "s" [] c = "R" -> "r"]

\* String.prototype.toLowerCase
toLowerCase(s) ==
    [i \in 1..Len(s) |-> IF s[i] \in DOMAIN UpperToLower THEN UpperToLower[s[i]] ELSE s[i]]

IsSpace(c) == c = " "

\* String.prototype.trim
RECURSIVE trimStart(_)
trimStart(s) == IF s # <<>> /\ IsSpace(Head(s)) THEN trimStart(Tail(s)) ELSE s

RECURSIVE trimEnd(_)
trimEnd(s) ==
    IF s # <<>> /\ IsSpace(s[Len(s)]) THEN trimEnd(SubSeq(s, 1, Len(s) - 1)) ELSE s

trim(s) == trimEnd(trimStart(s))

\* String.prototype.includes
includes(s, w) ==
    \E i \in 0..(Len(s) - Len(w)) : SubSeq(s, i + 1, i + Len(w)) = w

\* String.prototype.substring(0, n)
substring0(s, n) == SubSeq(s, 1, Min(n, Len(s)))

\* s.replace(/pat/g, rep) for a literal pattern
RECURSIVE replaceAll(_, _, _)
replaceAll(s, pat, rep) ==
    IF Len(s) < Len(pat) THEN s
    ELSE IF SubSeq(s, 1, Len(pat)) = pat
         THEN rep \o replaceAll(SubSeq(s, Len(pat) + 1, Len(s)), pat, rep)
         ELSE <<Head(s)>> \o replaceAll(Tail(s), pat, rep)

\* s.replace(/<[^>]*>/g, '')
RECURSIVE stripTags(_)
stripTags(s) ==
    IF s = <<>> THEN <<>>
    ELSE IF Head(s) = "<" /\ \E j \in 2..Len(s) : s[j] = ">"
         THEN LET j == CHOOSE k \in 2..Len(s) :
                            s[k] = ">" /\ \A m \in 2..(k - 1) : s[m] # ">"
              IN  stripTags(SubSeq(s, j + 1, Len(s)))
         ELSE <<Head(s)>> \o stripTags(Tail(s))

\* RSSAggregator.cleanDescription
cleanDescription(text) ==
    LET t0 == stripTags(text)
        t1 == replaceAll(t0, <<"&", "n", "b", "s", "p", ";">>, <<" ">>)
        t2 == replaceAll(t1, <<"&", "a", "m", "p", ";">>, <<"&">>)
        t3 == replaceAll(t2, <<"&", "l", "t", ";">>, <<"<">>)
        t4 == replaceAll(t3, <<"&", "g", "t", ";">>, <<">">>)
        t5 == replaceAll(t4, <<"&", "q", "u", "o", "t", ";">>, <<"\"">>)
        t6 == replaceAll(t5, <<"&", "#", "3", "9", ";">>, <<"'">>)
    IN  substring0(trim(t6), SnippetMax)

\* Array.prototype.slice(begin, end)
slice(s, begin, end) ==
    LET n == Len(s)
        b == IF begin < 0 THEN (IF n + begin < 0 THEN 0 ELSE n + begin) ELSE Min(begin, n)
        e == IF end < 0 THEN (IF n + end < 0 THEN 0 ELSE n + end) ELSE Min(end, n)
    IN  SubSeq(s, b + 1, e)

\* rest with its leading whitespace run removed
RECURSIVE skipSpaces(_)
skipSpaces(s) == IF s # <<>> /\ IsSpace(Head(s)) THEN skipSpaces(Tail(s)) ELSE s

\* s.split(/\s+/): the pieces between whitespace runs; a run at the start or
\* the end of s leaves an empty piece there
RECURSIVE splitFrom(_, _)
splitFrom(rest, cur) ==
    IF rest = <<>> THEN <<cur>>
    ELSE IF IsSpace(Head(rest))
         THEN <<cur>> \o splitFrom(skipSpaces(rest), <<>>)
         ELSE splitFrom(Tail(rest), Append(cur, Head(rest)))

splitWhitespace(s) == splitFrom(s, <<>>)

\* parseInt(s) for an absent parameter (<<>>) or a run of characters: the
\* leading decimal digits, NaN when there is none
DigitValue ==
    [c \in {"0", "1", "2", "3", "4", "5", "6", "7", "8", "9"} |->
        CASE c = "0" -> 0 [] c = "1" -> 1 [] c = "2" -> 2 [] c = "3" -> 3
          [] c = "4" -> 4 [] c = "5" -> 5 [] c = "6" -> 6 [] c = "7" -> 7
          [] c = "8" -> 8 [] c = "9" -> 9]

RECURSIVE digitsValue(_, _)
digitsValue(s, acc) ==
    IF s # <<>> /\ Head(s) \in DOMAIN DigitValue
    THEN digitsValue(Tail(s), 10 * acc + DigitValue[Head(s)])
    ELSE acc

parseInt(s) ==
    LET t == trimStart(s)
    IN  IF t # <<>> /\ Head(t) \in DOMAIN DigitValue THEN digitsValue(t, 0) ELSE NaN

----------------------------------------------------------------------------
(* Array.prototype.sort((a, b) => b.key - a.key) as the engine of the      *)
(* runtime (Node.js, V8) sorts an array shorter than 64 elements: the      *)
(* leading run is found (and reversed when strictly descending under the   *)
(* comparator), then each later element is placed by binary insertion.     *)
(* A comparator result of NaN counts as 0.  For keys without NaN this is a *)
(* stable sort, descending by key.  Elements are records [key, val].       *)

comparefn(a, b) == IF a.key = NaN \/ b.key = NaN THEN 0 ELSE b.key - a.key

Reverse(s) == [i \in 1..Len(s) |-> s[Len(s) + 1 - i]]

\* length of the run starting at s[1], given it has reached idx - 1
RECURSIVE runLength(_, _, _)
runLength(s, idx, descending) ==
    IF idx > Len(s) THEN Len(s)
    ELSE LET order == comparefn(s[idx], s[idx - 1])
         IN  IF (descending /\ order >= 0) \/ (~descending /\ order < 0)
             THEN idx - 1
             ELSE runLength(s, idx + 1, descending)

\* position at which pivot goes among the sorted s[left .. right - 1]
RECURSIVE insertionPointBeforeEqual(_, _, _, _)
insertionPointBeforeEqual(s, pivot, left, right) ==
    IF left >= right THEN left
    ELSE LET mid == left + ((right - left) \div 2)
         IN  IF comparefn(pivot, s[mid]) <= 0
             THEN insertionPointBeforeEqual(s, pivot, left, mid)
             ELSE insertionPointBeforeEqual(s, pivot, mid + 1, right)

RECURSIVE insertionPoint(_, _, _, _)
insertionPoint(s, pivot, left, right) ==
    IF left >= right THEN left
    ELSE LET mid == left + ((right - left) \div 2)
         IN  IF comparefn(pivot, s[mid]) < 0
             THEN insertionPoint(s, pivot, left, mid)
             ELSE insertionPoint(s, pivot, mid + 1, right)

\* s[1 .. start - 1] is sorted; place s[start], s[start + 1], ... in turn
RECURSIVE binaryInsertionSort(_, _)
binaryInsertionSort(s, start) ==
    IF start > Len(s) THEN s
    ELSE LET pivot == s[start]
             at == insertionPoint(s, pivot, 1, start)
             placed == SubSeq(s, 1, at - 1) \o <<pivot>> \o SubSeq(s, at, start - 1)
                           \o SubSeq(s, start + 1, Len(s))
         IN  binaryInsertionSort(placed, start + 1)

sortDescending(s) ==
    IF Len(s) < 2 THEN s
    ELSE LET descending == comparefn(s[2], s[1]) < 0
             run == runLength(s, 3, descending)
             made == IF descending
                     THEN Reverse(SubSeq(s, 1, run)) \o SubSeq(s, run + 1, Len(s))
                     ELSE s
         IN  binaryInsertionSort(made, run + 1)

----------------------------------------------------------------------------
(* The inputs: feeds.json and what each feed url may serve *)

Tech == <<"t", "e", "c", "h">>
Ai == <<"a", "i">>
Cup == <<"c", "u", "p">>

\* feeds.json: config.feeds
FeedsJson ==
    << [url |-> "https://a/rss", source |-> "A", category |-> Tech,
        keywords |-> <<Ai, Tech>>],
       [url |-> "https://b/rss", source |-> "B", category |-> Cup,
        keywords |-> <<Cup>>],
       [url |-> "https://c/rss", source |-> "C", category |-> <<"A", "I", " ">> \o Tech,
        keywords |-> <<>>] >>

\* one parsed feed entry, as rss-parser hands it over ("" and <<>>: absent)
Item(title, link, guid, contentSnippet, pubDate) ==
    [title |-> title, link |-> link, guid |-> guid,
     contentSnippet |-> contentSnippet, description |-> <<>>,
     content |-> contentSnippet, pubDate |-> pubDate,
     mediaContent |-> <<>>, mediaThumbnail |-> <<>>, enclosure |-> <<>>]

\* the item lists each feed url may resolve to, by position in feeds.json
FeedPayloads ==
    << << << Item(<<"A", "I", " ", "l", "a", "b">>, "u1", "",
                  <<"<", "b", ">", "a", "i", "<", "/", "b", ">", " ">>, "1970-01-06"),
             Item(<<"C", "h", "i", "p">>, "", "u2", <<>>, "") >>,
          << Item(<<"A", "I">>, "u1", "", Tech, "soon"),
             Item(<<"l", "a", "b">>, "", "", <<>>, "1970-01-10") >> >>,
       << << Item(Cup, "u3", "", <<"c", "u", "p", "&", "a", "m", "p", ";", "a", "i">>,
                  "1970-01-06"),
             Item(<<"A", "I", " ", "c", "u", "p">>, "u1", "", <<>>, "1970-01-10") >>,
          << Item(Cup, "", "", <<>>, "1970-01-02") >> >>,
       << << Item(<<>>, "u4", "", <<>>, "1970-01-02"),
             Item(Tech, "u4", "u5", Ai, "1970-01-10"),
             Item(<<>>, "u6", "", <<>>, "1970-01-02") >> >> >>

\* outcome of one parseURL promise
\* (a fulfilled one carries { feed, feedConfig }); feed: position in this.feeds
Rejected(i) == [feed |-> i, status |-> "rejected"]
Fulfilled(i, items) == [feed |-> i, status |-> "fulfilled", items |-> items]

\* every outcome of the fetch of feed i
Outcomes(i) ==
    {Rejected(i)} \cup {Fulfilled(i, FeedPayloads[i][k]) : k \in 1..Len(FeedPayloads[i])}

\* feed i is down, or serves its first list
UsualOutcomes(i) == {Rejected(i), Fulfilled(i, FeedPayloads[i][1])}

----------------------------------------------------------------------------
(* RSSAggregator.extractImageFromItem.  An image url is a sequence of      *)
(* characters; <<>> stands for a missing value and for the null result.    *)
(* An item's media:content is the sequence of its entries, media:thumbnail *)
(* and enclosure are a sequence of no or one object.                       *)

\* an object of media:content or media:thumbnail: with the attribute object
\* $ ({ $: { url, medium } }) or with the properties themselves
WithAttrs(url, medium) == [dollar |-> TRUE, attrs |-> [url |-> url, medium |-> medium],
                           url |-> <<>>, medium |-> ""]
Plain(url, medium) == [dollar |-> FALSE, attrs |-> [url |-> <<>>, medium |-> ""],
                       url |-> url, medium |-> medium]

Enclosure(url, type) == [url |-> url, type |-> type]

\* String.prototype.startsWith
startsWith(s, prefix) == Len(s) >= Len(prefix) /\ SubSeq(s, 1, Len(prefix)) = prefix

IsQuote(c) == c = "\"" \/ c = "'"

\* html.match(/<img[^>]+src=["']([^"']+)["']/i) tried at position p, with
\* src= at position j: the characters between the quotes, <<>> if no match
RECURSIVE captureFrom(_, _)
captureFrom(html, q) ==
    IF q > Len(html) \/ IsQuote(html[q]) THEN <<>>
    ELSE <<html[q]>> \o captureFrom(html, q + 1)

matchesAt(html, p, j) ==
    LET lower == toLowerCase(html)
        capture == captureFrom(html, j + 5)
    IN  /\ p + 3 <= Len(html)
        /\ j + 4 <= Len(html)
        /\ SubSeq(lower, p, p + 3) = <<"<", "i", "m", "g">>
        /\ j >= p + 5
        /\ \A k \in (p + 4)..(j - 1) : html[k] # ">"
        /\ SubSeq(lower, j, j + 3) = <<"s", "r", "c", "=">>
        /\ IsQuote(html[j + 4])
        /\ capture # <<>>
        /\ j + 5 + Len(capture) <= Len(html)

\* the first group of the leftmost match, [^>]+ taking as much as it can
imgMatch(html) ==
    LET starts == {p \in 1..Len(html) : \E j \in 1..Len(html) : matchesAt(html, p, j)}
    IN  IF starts = {} THEN <<>>
        ELSE LET p == CHOOSE x \in starts : \A y \in starts : x <= y
                 js == {j \in 1..Len(html) : matchesAt(html, p, j)}
                 j == CHOOSE x \in js : \A y \in js : x >= y
             IN  captureFrom(html, j + 5)

\* m?.$?.url || m?.url
entryUrl(m) == IF m.dollar /\ m.attrs.url # <<>> THEN m.attrs.url ELSE m.url

\* m?.$ ? m.$.medium : m?.medium
entryMedium(m) == IF m.dollar THEN m.attrs.medium ELSE m.medium

\* for (const m of entries): the url returned, <<>> if the loop ends
RECURSIVE firstMediaContent(_)
firstMediaContent(entries) ==
    IF entries = <<>> THEN <<>>
    ELSE IF entryUrl(Head(entries)) # <<>>
            /\ (entryMedium(Head(entries)) = "" \/ entryMedium(Head(entries)) = "image")
         THEN entryUrl(Head(entries))
         ELSE firstMediaContent(Tail(entries))

\* mediaThumbnail?.$ ? mediaThumbnail.$.url : mediaThumbnail?.url
thumbnailUrl(mediaThumbnail) ==
    IF mediaThumbnail = <<>> THEN <<>>
    ELSE IF mediaThumbnail[1].dollar THEN mediaThumbnail[1].attrs.url
         ELSE mediaThumbnail[1].url

\* item.enclosure?.url && item.enclosure.type?.startsWith('image/')
enclosureUrl(enclosure) ==
    IF enclosure # <<>> /\ enclosure[1].url # <<>>
       /\ startsWith(enclosure[1].type, <<"i", "m", "a", "g", "e", "/">>)
    THEN enclosure[1].url ELSE <<>>

extractImageFromItemThumbnailFirst(item) ==
    IF thumbnailUrl(item.mediaThumbnail) # <<>> THEN thumbnailUrl(item.mediaThumbnail)
    ELSE IF firstMediaContent(item.mediaContent) # <<>>
    THEN firstMediaContent(item.mediaContent)
    ELSE IF enclosureUrl(item.enclosure) # <<>> THEN enclosureUrl(item.enclosure)
    ELSE imgMatch(IF item.content # <<>> THEN item.content ELSE item.description)

extractImageFromItem(item) ==
    IF firstMediaContent(item.mediaContent) # <<>>
    THEN firstMediaContent(item.mediaContent)
    ELSE IF thumbnailUrl(item.mediaThumbnail) # <<>>
    THEN thumbnailUrl(item.mediaThumbnail)
    ELSE IF enclosureUrl(item.enclosure) # <<>> THEN enclosureUrl(item.enclosure)
    ELSE imgMatch(IF item.content # <<>> THEN item.content ELSE item.description)

----------------------------------------------------------------------------
(* RSSAggregator.fetchAllFeeds, after the fetches have settled *)

\* the article built from one item (the object pushed to newArticles)
Article(item, feedConfig, t) ==
    [title |-> IF item.title # <<>> THEN item.title
               ELSE <<"U", "n", "t", "i", "t", "l", "e", "d">>,
     url |-> IF item.link # "" THEN item.link ELSE item.guid,
     snippet |-> cleanDescription(IF item.contentSnippet # <<>>
                                  THEN item.contentSnippet ELSE item.description),
     content |-> IF item.content # <<>> THEN item.content ELSE item.description,
     imageUrl |-> extractImageFromItem(item),
     source |-> feedConfig.source,
     category |-> feedConfig.category,
     keywords |-> feedConfig.keywords,
     pubDate |-> IF item.pubDate # "" THEN DateParse(item.pubDate) ELSE t,
     fetchedAt |-> t]

\* feed.items.forEach(...): the articles of one fulfilled feed, in entry order
RECURSIVE itemArticles(_, _, _)
itemArticles(items, feedConfig, t) ==
    IF items = <<>> THEN <<>>
    ELSE LET item == Head(items)
             url == IF item.link # "" THEN item.link ELSE item.guid
             rest == itemArticles(Tail(items), feedConfig, t)
         IN  IF url = "" THEN rest ELSE <<Article(item, feedConfig, t)>> \o rest

\* for (const result of results): the candidates, in results order
RECURSIVE newArticles(_, _, _)
newArticles(results, configs, t) ==
    IF results = <<>> THEN <<>>
    ELSE (IF Head(results).status = "fulfilled"
          THEN itemArticles(Head(results).items, configs[Head(results).feed], t)
          ELSE <<>>)
         \o newArticles(Tail(results), configs, t)

\* RSSAggregator.removeDuplicates
RECURSIVE filterSeen(_, _)
filterSeen(arts, seen) ==
    IF arts = <<>> THEN <<>>
    ELSE IF Head(arts).url \in seen
         THEN filterSeen(Tail(arts), seen)
         ELSE <<Head(arts)>> \o filterSeen(Tail(arts), seen \cup {Head(arts).url})

removeDuplicatesKeepLast(arts) == Reverse(filterSeen(Reverse(arts), {}))

removeDuplicates(arts) == filterSeen(arts, {})

\* uniqueArticles.sort((a, b) => b.pubDate - a.pubDate)
sortByPubDate(arts) ==
    LET keyed == [i \in 1..Len(arts) |-> [key |-> arts[i].pubDate, val |-> arts[i]]]
        sorted == sortDescending(keyed)
    IN  [i \in 1..Len(sorted) |-> sorted[i].val]

\* Promise.allSettled(this.feeds.map(...)): resolves once every promise has
\* settled ...
allSettledAny(settled, n) == Len(settled) >= 1

allSettled(settled, n) == Len(settled) = n

\* ... with the outcomes in the order of this.feeds, whatever the order
\* they settled in (settled: the outcomes in completion order)
resultsInCompletionOrder(settled, n) == settled

RECURSIVE resultsFrom(_, _, _)
resultsFrom(settled, i, n) ==
    IF i > n THEN <<>>
    ELSE SelectSeq(settled, LAMBDA o : o.feed = i) \o resultsFrom(settled, i + 1, n)

resultsOf(settled, n) == resultsFrom(settled, 1, n)

\* the collection a run installs: this.articles = uniqueArticles
installedUnsorted(settled, configs, t) ==
    removeDuplicates(newArticles(resultsOf(settled, Len(configs)), configs, t))

installed(settled, configs, t) ==
    sortByPubDate(removeDuplicates(newArticles(resultsOf(settled, Len(configs)), configs, t)))

----------------------------------------------------------------------------
(* RSSAggregator.search *)

\* how many elements of the sequence words satisfy includes(text, word)
wordHits(text, words) ==
    Cardinality({w \in 1..Len(words) : includes(text, words[w])})

keywordHits(keywords, words) ==
    Cardinality({p \in (1..Len(keywords)) \X (1..Len(words)) :
        \/ includes(toLowerCase(keywords[p[1]]), words[p[2]])
        \/ includes(words[p[2]], toLowerCase(keywords[p[1]]))})

\* the score of one article (the body of this.articles.map)
score(article, query, t) ==
    LET queryLower == toLowerCase(query)
        queryWords == splitWhitespace(queryLower)
        age == IF article.pubDate = NaN THEN NaN ELSE t - article.pubDate
    IN  10 * wordHits(toLowerCase(article.title), queryWords)
        + 5 * wordHits(toLowerCase(article.snippet), queryWords)
        + 3 * keywordHits(article.keywords, queryWords)
        + (IF includes(toLowerCase(article.category), queryLower) THEN 7 ELSE 0)
        + (IF age = NaN THEN 0
           ELSE IF age < MsPerDay THEN 2
           ELSE IF age < 7 * MsPerDay THEN 1 ELSE 0)

\* scoredArticles.filter(score > 0).sort((a, b) => b.score - a.score)
ranked(arts, query, t) ==
    LET scored == [i \in 1..Len(arts) |->
                      [key |-> score(arts[i], query, t), val |-> arts[i]]]
        kept == SelectSeq(scored, LAMBDA item : item.key > 0)
        sorted == sortDescending(kept)
    IN  [i \in 1..Len(sorted) |-> sorted[i].val]

\* this.articles after a call of search: map and filter build new arrays,
\* and sort rearranges the filtered one, so the collection is as before
articlesAfterSearchSortedInPlace(arts, query, t) ==
    IF query = <<>> \/ trim(query) = <<>> THEN arts ELSE ranked(arts, query, t)

articlesAfterSearch(arts, query, t) == arts

search(arts, query, limit, offset, t) ==
    IF query = <<>> \/ trim(query) = <<>>
    THEN slice(arts, 0, limit)
    ELSE slice(ranked(arts, query, t), offset, offset + limit)

----------------------------------------------------------------------------
(* The cache file: JSON.stringify and JSON.parse + new Date(...) *)

\* Date.prototype.toJSON: the ISO string, null for an Invalid Date (the ISO
\* string keeps the milliseconds, so it is modelled by the time value)
toJSON(d) == IF d = NaN THEN Null ELSE d

\* new Date(v) for a value read from JSON: null gives the epoch
newDate(v) == IF v = Null THEN 0 ELSE v

NoFile == [kind |-> "absent"]
Malformed == [kind |-> "malformed"]

\* JSON.stringify({ articles, lastUpdate })
stringify(arts, updated) ==
    [kind |-> "json",
     articles |-> [i \in 1..Len(arts) |->
                     [arts[i] EXCEPT !.pubDate = toJSON(@), !.fetchedAt = toJSON(@)]],
     lastUpdate |-> IF updated = Null THEN Null ELSE toJSON(updated)]

\* parsed.articles.map(a => ({...a, pubDate: new Date(..), fetchedAt: new Date(..)}))
parsedArticles(file) ==
    [i \in 1..Len(file.articles) |->
        [file.articles[i] EXCEPT !.pubDate = newDate(@), !.fetchedAt = newDate(@)]]

\* a cache file left by an earlier process: feed A served its first list,
\* B its first list, C failed, one day before this process started
EarlierCache ==
    LET t == StartTime - MsPerDay
        settled == << Fulfilled(2, FeedPayloads[2][1]), Fulfilled(1, FeedPayloads[1][1]),
                      Rejected(3) >>
    IN  stringify(installed(settled, FeedsJson, t), t)

----------------------------------------------------------------------------
(* The server *)

\* outcome: how the caller's "await fetchAllFeeds(); await saveToFile()" ended
IdleRun ==
    [pc |-> "idle", trigger |-> "none", settled |-> <<>>, data |-> NoFile,
     outcome |-> "none"]

NoRequest == [via |-> "none"]
NoResponse == [status |-> 0, articles |-> <<>>]

RunIds == 1..MaxRuns

\* a run is in progress from the call of fetchAllFeeds until it returns
InProgress(r) == runs[r].pc = "fetching"
RefreshInProgress == \E r \in RunIds : runs[r].pc # "idle"

\* a loadFeed execution slot that is free
IdleLoad == [pc |-> "idle", loadMore |-> FALSE, next |-> 0, offset |-> 0, allArticles |-> <<>>]

LoadIds == 1..MaxLoads

\* the page as its script leaves it when loaded, with the settings given
ClientInit(initial) ==
    /\ settings = initial
    /\ loadedArticles = {}
    /\ currentPage = 0
    /\ isLoading = FALSE
    /\ loads = [l \in LoadIds |-> IdleLoad]
    /\ feedElement = <<>>
    /\ lastCall = "none"

\* let settings = {...}: the settings of a first visit
DefaultSettings == [interests |-> <<>>, totalArticles |-> 10, articlesPerInterest |-> 5]

Init ==
    /\ ClientInit(DefaultSettings)
    /\ feeds = <<>>
    /\ articles = <<>>
    /\ lastUpdate = Null
    /\ cacheFile \in {NoFile, Malformed, EarlierCache}
    /\ now = StartTime
    /\ ticks = 0
    /\ initPc = "loadFeeds"
    /\ runs = [r \in RunIds |-> IdleRun]
    /\ started = 0
    /\ request = NoRequest
    /\ response = NoResponse

\* time passes
Tick ==
    /\ ticks < MaxTicks
    /\ ticks' = ticks + 1
    /\ now' = now + TickMs
    /\ UNCHANGED clientVars
    /\ UNCHANGED <<feeds, articles, lastUpdate, cacheFile, initPc, runs, started,
                   request, response>>

\* initialize(): await aggregator.loadFeeds()
LoadFeeds(config) ==
    /\ initPc = "loadFeeds"
    /\ feeds' = config
    /\ initPc' = "loadFromFile"
    /\ UNCHANGED clientVars
    /\ UNCHANGED <<articles, lastUpdate, cacheFile, now, ticks, runs, started,
                   request, response>>

\* loadFeeds throws (feeds.json missing or malformed): process.exit(1)
LoadFeedsFail ==
    /\ initPc = "loadFeeds"
    /\ initPc' = "exit"
    /\ UNCHANGED clientVars
    /\ UNCHANGED <<feeds, articles, lastUpdate, cacheFile, now, ticks, runs, started,
                   request, response>>

\* initialize(): if (!cacheLoaded) { fetchAllFeeds; saveToFile }, then
\* setInterval: the statement that follows the cache load
afterLoadAlwaysFetch(cacheLoaded) == "fetchAllFeeds"

afterLoad(cacheLoaded) == IF cacheLoaded THEN "setInterval" ELSE "fetchAllFeeds"

\* initialize(): const cacheLoaded = await aggregator.loadFromFile()
LoadFromFile ==
    /\ initPc = "loadFromFile"
    /\ IF cacheFile.kind = "json"
       THEN /\ articles' = parsedArticles(cacheFile)
            /\ lastUpdate' = newDate(cacheFile.lastUpdate)
            /\ initPc' = afterLoad(TRUE)
       ELSE /\ initPc' = afterLoad(FALSE)
            /\ UNCHANGED <<articles, lastUpdate>>
    /\ UNCHANGED clientVars
    /\ UNCHANGED <<feeds, cacheFile, now, ticks, runs, started, request, response>>

\* the call of fetchAllFeeds up to its await: one parseURL per feed is issued
StartRun(r, trigger) ==
    /\ runs[r].pc = "idle"
    /\ \A q \in 1..(r - 1) : runs[q].pc # "idle"
    /\ runs' = [runs EXCEPT ![r] = [IdleRun EXCEPT !.pc = "fetching", !.trigger = trigger]]

\* initialize(): if (!cacheLoaded) await aggregator.fetchAllFeeds()
InitialFetch(slots) ==
    /\ initPc = "fetchAllFeeds"
    /\ \E r \in slots : StartRun(r, "init")
    /\ initPc' = "saveToFile"
    /\ UNCHANGED clientVars
    /\ UNCHANGED <<feeds, articles, lastUpdate, cacheFile, now, ticks, started,
                   request, response>>

\* initialize(): setInterval(..., REFRESH_INTERVAL)
SetInterval ==
    /\ initPc = "setInterval"
    /\ initPc' = "listen"
    /\ UNCHANGED clientVars
    /\ UNCHANGED <<feeds, articles, lastUpdate, cacheFile, now, ticks, runs, started,
                   request, response>>

\* initialize().then(() => app.listen(PORT, ...))
Listen ==
    /\ initPc = "listen"
    /\ initPc' = "serving"
    /\ UNCHANGED clientVars
    /\ UNCHANGED <<feeds, articles, lastUpdate, cacheFile, now, ticks, runs, started,
                   request, response>>

\* app.post('/refresh'): await aggregator.fetchAllFeeds()
ManualRefresh(slots) ==
    /\ initPc = "serving"
    /\ started < MaxRefreshes
    /\ \E r \in slots : StartRun(r, "manual")
    /\ started' = started + 1
    /\ UNCHANGED clientVars
    /\ UNCHANGED <<feeds, articles, lastUpdate, cacheFile, now, ticks, initPc,
                   request, response>>

\* the setInterval callback: await aggregator.fetchAllFeeds().  The first
\* firing is REFRESH_INTERVAL after setInterval, the listen call follows
\* setInterval at once
TimerRefresh(slots) ==
    /\ initPc = "serving"
    /\ started < MaxRefreshes
    /\ \E r \in slots : StartRun(r, "timer")
    /\ started' = started + 1
    /\ UNCHANGED clientVars
    /\ UNCHANGED <<feeds, articles, lastUpdate, cacheFile, now, ticks, initPc,
                   request, response>>

\* one parseURL promise settles
Settle(r, o) ==
    /\ runs[r].pc = "fetching"
    /\ o.feed \in 1..Len(feeds)
    /\ \A k \in 1..Len(runs[r].settled) : runs[r].settled[k].feed # o.feed
    /\ runs' = [runs EXCEPT ![r].settled = Append(@, o)]
    /\ UNCHANGED clientVars
    /\ UNCHANGED <<feeds, articles, lastUpdate, cacheFile, now, ticks, initPc,
                   started, request, response>>

\* fetchAllFeeds from the resolution of Promise.allSettled to its return, and
\* the caller's saveToFile up to its await of fs.writeFile: these run in one
\* turn of the event loop
FinishFetch(r) ==
    /\ runs[r].pc = "fetching"
    /\ allSettled(runs[r].settled, Len(feeds))
    /\ articles' = installed(runs[r].settled, feeds, now)
    /\ lastUpdate' = now
    /\ runs' = [runs EXCEPT ![r].pc = "writing",
                            ![r].data = stringify(articles', lastUpdate')]
    /\ UNCHANGED clientVars
    /\ UNCHANGED <<feeds, cacheFile, now, ticks, initPc, started, request, response>>

\* what the caller of saveToFile sees: saveToFile catches the error of
\* fs.writeFile and returns normally
afterSaveRethrow(written) == IF written THEN "success" ELSE "failed"

afterSave(written) == "success"

\* the end of a run: control returns to initialize(), the timer callback or
\* the /refresh handler; a failure is caught there (initialize: process.exit)
EndRun(r, written) ==
    /\ runs' = [runs EXCEPT ![r] = [IdleRun EXCEPT !.outcome = afterSave(written)]]
    /\ initPc' = IF runs[r].trigger = "init"
                 THEN (IF afterSave(written) = "success" THEN "setInterval" ELSE "exit")
                 ELSE initPc

\* fs.writeFile succeeds
WriteDone(r) ==
    /\ runs[r].pc = "writing"
    /\ cacheFile' = runs[r].data
    /\ EndRun(r, TRUE)
    /\ UNCHANGED clientVars
    /\ UNCHANGED <<feeds, articles, lastUpdate, now, ticks, started, request, response>>

\* fs.writeFile fails; saveToFile logs the error and returns.  The file is
\* as it was, or left truncated
WriteFail(r) ==
    /\ runs[r].pc = "writing"
    /\ cacheFile' \in {cacheFile, Malformed}
    /\ EndRun(r, FALSE)
    /\ UNCHANGED clientVars
    /\ UNCHANGED <<feeds, articles, lastUpdate, now, ticks, started, request, response>>

\* app.get('/search'): parseInt(req.query.limit) || 20
limitOf(param) ==
    LET n == parseInt(param) IN IF n = NaN \/ n = 0 THEN DefaultLimit ELSE n

\* app.get('/search'): parseInt(req.query.offset) || 0
offsetOf(param) ==
    LET n == parseInt(param) IN IF n = NaN \/ n = 0 THEN 0 ELSE n

\* the article fields the /search response carries
responseArticle(article, query) ==
    [title |-> article.title, url |-> article.url, snippet |-> article.snippet,
     imageUrl |-> article.imageUrl,
     source |-> article.source, category |-> article.category,
     pubDate |-> article.pubDate, interest |-> query]

responseArticles(results, query) ==
    [i \in 1..Len(results) |-> responseArticle(results[i], query)]

\* app.get('/search'): if (aggregator.articles.length === 0), the answer is
\* 503 "Articles not yet loaded"
notReadyUntilFirstUpdate(arts) == lastUpdate = Null

notReady(arts) == Len(arts) = 0

\* what app.get('/search') answers at this moment
searchResponse(q, limitParam, offsetParam) ==
    LET limit == limitOf(limitParam)
        offset == offsetOf(offsetParam)
        results == search(articles, q, limit, offset, now)
    IN  IF notReady(articles)
        THEN [status |-> 503, articles |-> <<>>]
        ELSE [status |-> 200, query |-> q, count |-> Len(results),
              articles |-> responseArticles(results, q)]

\* app.get('/search') for the parameters q, limit and offset as sent (<<>>:
\* not sent).  request.at and request.midRefresh record the time of the call
\* and whether a run was in flight then
HandleSearch(q, limitParam, offsetParam) ==
    /\ initPc = "serving"
    /\ request' = [via |-> "handler", q |-> q, limit |-> limitOf(limitParam),
                   offset |-> offsetOf(offsetParam),
                   limitParam |-> limitParam, offsetParam |-> offsetParam,
                   at |-> now, midRefresh |-> RefreshInProgress]
    /\ response' = searchResponse(q, limitParam, offsetParam)
    /\ articles' = articlesAfterSearch(articles, q, now)
    /\ UNCHANGED clientVars
    /\ UNCHANGED <<feeds, lastUpdate, cacheFile, now, ticks, initPc, runs, started>>

\* a direct call aggregator.search(query, limit, offset)
CallSearch(q, limit, offset) ==
    /\ initPc = "serving"
    /\ request' = [via |-> "direct", q |-> q, limit |-> limit, offset |-> offset,
                   at |-> now, midRefresh |-> RefreshInProgress]
    /\ response' = [status |-> 0, articles |-> search(articles, q, limit, offset, now)]
    /\ articles' = articlesAfterSearch(articles, q, now)
    /\ UNCHANGED clientVars
    /\ UNCHANGED <<feeds, lastUpdate, cacheFile, now, ticks, initPc, runs, started>>

----------------------------------------------------------------------------
(* The browser page: loadFeed, loadMoreArticles, fetchArticles *)

\* `${n}` for an integer n >= 0
RECURSIVE decimal(_)
decimal(n) ==
    IF n < 10 THEN <<CHOOSE c \in DOMAIN DigitValue : DigitValue[c] = n>>
    ELSE decimal(n \div 10) \o decimal(n % 10)

\* the object fetchArticles pushes for one article of data.articles
clientArticle(article, interest) ==
    [title |-> article.title, url |-> article.url,
     snippet |-> IF article.snippet # <<>> THEN article.snippet
                 ELSE <<"N", "o", " ", "d", "e", "s", "c", "r", "i", "p", "t", "i", "o", "n">>,
     interest |-> interest, source |-> article.source, category |-> article.category,
     pubDate |-> article.pubDate, imageUrl |-> article.imageUrl]

\* loadedArticles.has(article.url)
hasNever(loaded, url) == FALSE

has(loaded, url) == url \in loaded

\* for (const article of data.articles): what is pushed to allArticles and
\* what loadedArticles becomes
RECURSIVE processArticlesNoBreak(_, _, _, _, _)
processArticlesNoBreak(data, interest, articlesPerInterest, loaded, added) ==
    IF data = <<>>
    THEN [pushed |-> <<>>, loaded |-> loaded]
    ELSE IF has(loaded, Head(data).url)
         THEN processArticlesNoBreak(Tail(data), interest, articlesPerInterest, loaded, added)
         ELSE LET rest == processArticlesNoBreak(Tail(data), interest, articlesPerInterest,
                                                 loaded \cup {Head(data).url}, added + 1)
              IN  [pushed |-> <<clientArticle(Head(data), interest)>> \o rest.pushed,
                   loaded |-> rest.loaded]

RECURSIVE processArticles(_, _, _, _, _)
processArticles(data, interest, articlesPerInterest, loaded, added) ==
    IF data = <<>> \/ added >= articlesPerInterest
    THEN [pushed |-> <<>>, loaded |-> loaded]
    ELSE IF has(loaded, Head(data).url)
         THEN processArticles(Tail(data), interest, articlesPerInterest, loaded, added)
         ELSE LET rest == processArticles(Tail(data), interest, articlesPerInterest,
                                          loaded \cup {Head(data).url}, added + 1)
              IN  [pushed |-> <<clientArticle(Head(data), interest)>> \o rest.pushed,
                   loaded |-> rest.loaded]

\* allArticles.sort(() => Math.random() - 0.5): some rearrangement
Shuffles(s) == {[i \in 1..Len(s) |-> s[f[i]]] : f \in Permutations(1..Len(s))}

\* loadFeed: if (isLoading) return
gatedNever(loading) == FALSE

gated(loading) == loading

\* loadFeed(loadMore) from its call to its first await (the fetch of the
\* first interest), or to its return at one of the two early exits
LoadFeed(l, loadMore) ==
    /\ loads[l].pc = "idle"
    /\ \A k \in 1..(l - 1) : loads[k].pc # "idle"
    /\ loadMore => currentPage < MaxPages
    /\ IF gated(isLoading)
       THEN /\ lastCall' = "loading"
            /\ UNCHANGED <<settings, loadedArticles, currentPage, isLoading, loads,
                           feedElement>>
       ELSE IF Len(settings.interests) = 0
       THEN /\ lastCall' = "no interests"
            /\ UNCHANGED <<settings, loadedArticles, currentPage, isLoading, loads,
                           feedElement>>
       ELSE /\ lastCall' = "started"
            /\ currentPage' = IF loadMore THEN currentPage ELSE 0
            /\ loadedArticles' = IF loadMore THEN loadedArticles ELSE {}
            /\ isLoading' = TRUE
            /\ feedElement' = IF loadMore THEN feedElement ELSE <<>>
            /\ loads' = [loads EXCEPT ![l] =
                           [pc |-> "fetching", loadMore |-> loadMore, next |-> 1,
                            offset |-> currentPage' * settings.articlesPerInterest,
                            allArticles |-> <<>>]]
            /\ UNCHANGED settings
    /\ UNCHANGED serverVars

\* the rest of fetchArticles and of loadFeed once the fetch of interest
\* number loads[l].next has ended with the articles pushed for it: the fetch
\* of the next interest is issued, or the page is rendered
Continue(l, pushed, loaded) ==
    LET all == loads[l].allArticles \o pushed
    IN  /\ loadedArticles' = loaded
        /\ IF loads[l].next < Len(settings.interests)
           THEN /\ loads' = [loads EXCEPT ![l].next = @ + 1,
                                          ![l].offset = currentPage * settings.articlesPerInterest,
                                          ![l].allArticles = all]
                /\ UNCHANGED <<currentPage, isLoading, feedElement>>
           ELSE /\ \E shuffled \in Shuffles(all) :
                      LET page == [taken |-> all,
                                   articles |-> slice(shuffled, 0, settings.totalArticles)]
                      IN  feedElement' = IF loads[l].loadMore
                                         THEN Append(feedElement, page) ELSE <<page>>
                /\ currentPage' = currentPage + 1
                /\ isLoading' = FALSE
                /\ loads' = [loads EXCEPT ![l] = IdleLoad]
        /\ lastCall' = lastCall
        /\ UNCHANGED settings

\* the fetch of one interest is answered by the server
FetchReply(l) ==
    /\ loads[l].pc = "fetching"
    /\ initPc = "serving"
    /\ LET interest == settings.interests[loads[l].next]
           reply == searchResponse(interest, decimal(settings.articlesPerInterest),
                                   decimal(loads[l].offset))
           taken == IF reply.status = 200
                    THEN processArticles(reply.articles, interest,
                                         settings.articlesPerInterest, loadedArticles, 0)
                    ELSE [pushed |-> <<>>, loaded |-> loadedArticles]
       IN  Continue(l, taken.pushed, taken.loaded)
    /\ UNCHANGED serverVars

\* the fetch of one interest fails (the server is not reachable)
FetchFail(l) ==
    /\ loads[l].pc = "fetching"
    /\ Continue(l, <<>>, loadedArticles)
    /\ UNCHANGED serverVars

----------------------------------------------------------------------------
(* Spec: the server from construction on, with a two-feed feeds.json, each *)
(* feed down or serving its first list, and refreshes that may overlap     *)

\* the requests the server receives while refreshes run
ServerQueries == {<<>>, Ai}

Next ==
    \/ LoadFeeds(SubSeq(FeedsJson, 1, 2))
    \/ LoadFeedsFail
    \/ LoadFromFile
    \/ InitialFetch(RunIds)
    \/ SetInterval
    \/ Listen
    \/ ManualRefresh(RunIds)
    \/ TimerRefresh(RunIds)
    \/ \E r \in RunIds, i \in 1..Len(FeedsJson) : \E o \in UsualOutcomes(i) : Settle(r, o)
    \/ \E r \in RunIds : FinishFetch(r)
    \/ \E r \in RunIds : WriteDone(r)
    \/ \E r \in RunIds : WriteFail(r)
    \/ \E q \in ServerQueries : HandleSearch(q, <<"1">>, <<>>)

Spec == Init /\ [][Next]_vars

----------------------------------------------------------------------------
(* SpecRefresh: the serving server after a start from the cache file, with *)
(* the three-feed feeds.json and every outcome of every fetch              *)

InitRefresh ==
    /\ ClientInit(DefaultSettings)
    /\ feeds = FeedsJson
    /\ articles = parsedArticles(EarlierCache)
    /\ lastUpdate = newDate(EarlierCache.lastUpdate)
    /\ cacheFile = EarlierCache
    /\ now = StartTime
    /\ ticks = 0
    /\ initPc = "serving"
    /\ runs = [r \in RunIds |-> IdleRun]
    /\ started = 0
    /\ request = NoRequest
    /\ response = NoResponse

NextRefresh ==
    \/ Tick
    \/ ManualRefresh({1})
    \/ TimerRefresh({1})
    \/ \E r \in RunIds, i \in 1..Len(FeedsJson) : \E o \in Outcomes(i) : Settle(r, o)
    \/ \E r \in RunIds : FinishFetch(r)
    \/ \E r \in RunIds : WriteDone(r)

SpecRefresh == InitRefresh /\ [][NextRefresh]_vars

----------------------------------------------------------------------------
(* SpecSearch: the serving server after a start without cache file, for    *)
(* every collection the first fetch can install; search calls only         *)

\* the decimal numeral of n, 0 <= n <= 9, as a request parameter
Numeral(n) == <<CHOOSE c \in DOMAIN DigitValue : DigitValue[c] = n>>

\* every way the fetches of the first n feeds can settle, in feeds order
SettledVectors(n) ==
    {v \in [1..n -> UNION {Outcomes(i) : i \in 1..n}] : \A i \in 1..n : v[i] \in Outcomes(i)}

InitSearch ==
    /\ ClientInit(DefaultSettings)
    /\ feeds = FeedsJson
    /\ \E v \in SettledVectors(Len(FeedsJson)) :
          /\ articles = installed(v, FeedsJson, StartTime)
          /\ cacheFile = stringify(articles, StartTime)
    /\ lastUpdate = StartTime
    /\ now = StartTime
    /\ ticks = 0
    /\ initPc = "serving"
    /\ runs = [r \in RunIds |-> IdleRun]
    /\ started = 0
    /\ request = NoRequest
    /\ response = NoResponse

SearchQueries ==
    {<<>>, <<" ">>, Ai, Cup, <<" ">> \o Ai, <<"A", "I", " ">> \o Cup}

LimitParams == {<<>>} \cup {Numeral(n) : n \in 0..MaxLimit}
OffsetParams == {<<>>} \cup {Numeral(n) : n \in 0..MaxOffset}

NextSearch ==
    \/ \E q \in SearchQueries, l \in LimitParams, o \in OffsetParams :
          HandleSearch(q, l, o)
    \/ \E q \in SearchQueries, l \in 0..MaxLimit, o \in 0..MaxOffset :
          CallSearch(q, l, o)

SpecSearch == InitSearch /\ [][NextSearch]_vars

----------------------------------------------------------------------------
(* SpecReaders: the serving server after a start from the cache file, with *)
(* searches arriving at every point of a refresh                           *)

NextReaders ==
    \/ ManualRefresh({1})
    \/ TimerRefresh({1})
    \/ \E r \in RunIds, i \in 1..Len(FeedsJson) : \E o \in UsualOutcomes(i) : Settle(r, o)
    \/ \E r \in RunIds : FinishFetch(r)
    \/ \E r \in RunIds : WriteDone(r)
    \/ \E q \in ServerQueries : HandleSearch(q, <<"1">>, <<>>)

SpecReaders == InitRefresh /\ [][NextReaders]_vars

----------------------------------------------------------------------------
(* SpecWrites: the serving server after a start from the cache file, with  *)
(* cache writes that succeed or fail                                       *)

NextWrites ==
    \/ ManualRefresh({1})
    \/ TimerRefresh({1})
    \/ \E r \in RunIds, i \in 1..Len(FeedsJson) : \E o \in UsualOutcomes(i) : Settle(r, o)
    \/ \E r \in RunIds : FinishFetch(r)
    \/ \E r \in RunIds : WriteDone(r)
    \/ \E r \in RunIds : WriteFail(r)
    \/ HandleSearch(Ai, <<>>, <<>>)

SpecWrites == InitRefresh /\ [][NextWrites]_vars

----------------------------------------------------------------------------
(* SpecClient: the browser page against a serving server whose collection  *)
(* holds the first lists of all three feeds                                *)

Interests == {<<>>, <<Ai>>, <<Cup, Ai>>}

InitClient ==
    /\ \E i \in Interests, t \in 0..MaxTotal, a \in 0..MaxPerInterest :
          ClientInit([interests |-> i, totalArticles |-> t, articlesPerInterest |-> a])
    /\ feeds = FeedsJson
    /\ articles = installed(<<Fulfilled(1, FeedPayloads[1][1]), Fulfilled(2, FeedPayloads[2][1]),
                              Fulfilled(3, FeedPayloads[3][1])>>, FeedsJson, StartTime)
    /\ lastUpdate = StartTime
    /\ cacheFile = stringify(articles, StartTime)
    /\ now = StartTime
    /\ ticks = 0
    /\ initPc = "serving"
    /\ runs = [r \in RunIds |-> IdleRun]
    /\ started = 0
    /\ request = NoRequest
    /\ response = NoResponse

NextClient ==
    \/ \E l \in LoadIds, loadMore \in BOOLEAN : LoadFeed(l, loadMore)
    \/ \E l \in LoadIds : FetchReply(l)
    \/ \E l \in LoadIds : FetchFail(l)

SpecClient == InitClient /\ [][NextClient]_vars

\* SpecClientFair: every fetch the page has issued is answered or fails
SpecClientFair ==
    /\ InitClient
    /\ [][NextClient]_vars
    /\ \A l \in LoadIds : WF_vars(FetchFail(l) \/ FetchReply(l))

----------------------------------------------------------------------------
(* SpecStartup: the server from construction on, one refresh at a time     *)

NextStartup ==
    \/ LoadFeeds(SubSeq(FeedsJson, 1, 2))
    \/ LoadFeedsFail
    \/ LoadFromFile
    \/ InitialFetch({1})
    \/ SetInterval
    \/ Listen
    \/ ManualRefresh({1})
    \/ TimerRefresh({1})
    \/ \E r \in RunIds, i \in 1..Len(FeedsJson) : \E o \in UsualOutcomes(i) : Settle(r, o)
    \/ \E r \in RunIds : FinishFetch(r)
    \/ \E r \in RunIds : WriteDone(r)
    \/ \E r \in RunIds : WriteFail(r)
    \/ \E q \in ServerQueries : HandleSearch(q, <<>>, <<>>)

SpecStartup == Init /\ [][NextStartup]_vars

----------------------------------------------------------------------------
(* SpecImages: refreshes of a server with one feed, which serves one entry *)
(* with every combination of media:content, media:thumbnail, enclosure and *)
(* html                                                                    *)

MediaContents ==
    { <<>>,
      <<WithAttrs(<<"i", "1">>, "image")>>,
      <<WithAttrs(<<"v", "1">>, "video")>>,
      <<WithAttrs(<<"v", "1">>, "video"), WithAttrs(<<"i", "1">>, "image"), WithAttrs(<<"i", "2">>, "")>>,
      <<WithAttrs(<<>>, "image"), WithAttrs(<<"i", "2">>, "")>>,
      <<Plain(<<"i", "3">>, "")>> }

MediaThumbnails == { <<>>, <<WithAttrs(<<"t", "1">>, "")>>, <<WithAttrs(<<>>, "")>>, <<Plain(<<"t", "2">>, "")>> }

Enclosures ==
    { <<>>, <<Enclosure(<<"e", "1">>, <<"i", "m", "a", "g", "e", "/", "p", "n", "g">>)>>, <<Enclosure(<<"e", "2">>, <<"a", "u", "d", "i", "o", "/", "m", "p", "e", "g">>)>>,
      <<Enclosure(<<"e", "3">>, <<>>)>> }

\* <img src="..."> and <IMG SRC='...'>
ImgTag(src) == <<"<", "i", "m", "g", " ", "s", "r", "c", "=", "\"">> \o src \o <<"\"", ">">>
ImgTagUpper(src) == <<"<", "I", "M", "G", " ", "S", "R", "C", "=", "'">> \o src \o <<"'", ">">>

\* the html of an entry: its content and its description
Htmls ==
    { [content |-> <<>>, description |-> <<>>],
      [content |-> <<"<", "p", ">", "a", "<", "/", "p", ">">>, description |-> <<>>],
      [content |-> <<"<", "p", ">", "a", "<", "/", "p", ">">> \o ImgTag(<<"i", "4">>) \o ImgTag(<<"i", "5">>), description |-> <<>>],
      [content |-> ImgTagUpper(<<"i", "5">>), description |-> <<>>],
      [content |-> <<>>, description |-> <<"<", "p", ">", "a", "<", "/", "p", ">">> \o ImgTag(<<"i", "6">>)] }

ImageItems ==
    { [Item(Tech, "u1", "", <<>>, "1970-01-06") EXCEPT
          !.mediaContent = mc, !.mediaThumbnail = mt, !.enclosure = en,
          !.content = h.content, !.description = h.description] :
      mc \in MediaContents, mt \in MediaThumbnails, en \in Enclosures, h \in Htmls }

InitImages ==
    /\ ClientInit(DefaultSettings)
    /\ feeds = SubSeq(FeedsJson, 1, 1)
    /\ articles = <<>>
    /\ lastUpdate = Null
    /\ cacheFile = NoFile
    /\ now = StartTime
    /\ ticks = 0
    /\ initPc = "serving"
    /\ runs = [r \in RunIds |-> IdleRun]
    /\ started = 0
    /\ request = NoRequest
    /\ response = NoResponse

NextImages ==
    \/ ManualRefresh({1})
    \/ \E item \in ImageItems : Settle(1, Fulfilled(1, <<item>>))
    \/ FinishFetch(1)
    \/ WriteDone(1)

SpecImages == InitImages /\ [][NextImages]_vars

----------------------------------------------------------------------------
(* Properties *)

Urls(arts) == [k \in 1..Len(arts) |-> arts[k].url]

\* run r returns from fetchAllFeeds in this step
FinishStep(r) == runs[r].pc = "fetching" /\ runs'[r].pc # "fetching"

UsableUrl(item) == IF item.link # "" THEN item.link ELSE item.guid

\* the entries <<feed, position>> with a link or guid that the fulfilled
\* fetches of a run delivered
Entries(settled) ==
    UNION {{<<settled[k].feed, j>> :
               j \in {j \in 1..Len(settled[k].items) : UsableUrl(settled[k].items[j]) # ""}} :
           k \in {k \in 1..Len(settled) : settled[k].status = "fulfilled"}}

EntryItem(settled, e) ==
    (settled[CHOOSE k \in 1..Len(settled) : settled[k].feed = e[1]]).items[e[2]]

\* e comes no later than f in source-then-entry order
EntryBefore(e, f) == e[1] < f[1] \/ (e[1] = f[1] /\ e[2] <= f[2])

Times == {StartTime + k * TickMs : k \in 0..MaxTicks}

\* every collection a completed fetchAllFeeds can produce, and the ones the
\* server starts with
WholeCollections ==
    {<<>>, parsedArticles(EarlierCache)}
    \cup UNION {{sortByPubDate(removeDuplicates(
                     newArticles(v, SubSeq(FeedsJson, 1, n), t))) :
                  v \in SettledVectors(n), t \in Times} : n \in 1..Len(FeedsJson)}

IsSortedDescending(arts) ==
    \A k \in 1..(Len(arts) - 1) :
        /\ arts[k].pubDate # NaN
        /\ arts[k + 1].pubDate # NaN
        /\ arts[k].pubDate >= arts[k + 1].pubDate

\* C1: at most one run of fetchAllFeeds is in progress at any time
C1_SingleFlight == Cardinality({r \in RunIds : InProgress(r)}) <= 1

\* C2: a run whose candidate set is empty leaves a non-empty live
\* collection as it was
C2_EmptyRunKeepsCollection ==
    [][\A r \in RunIds :
          (/\ FinishStep(r)
           /\ newArticles(resultsOf(runs[r].settled, Len(feeds)), feeds, now) = <<>>
           /\ articles # <<>>)
          => articles' = articles]_vars

\* C3: every search served, at whatever point of a refresh, finds the live
\* collection to be a whole one (the collection the server started with or
\* the deduplicated, sorted result of a completed fetchAllFeeds) and its
\* result is computed from that collection alone
C3_SearchSeesWholeCollection ==
    [][(request' # request \/ response' # response)
          => /\ articles \in WholeCollections
             /\ response'.articles =
                  responseArticles(search(articles, request'.q, request'.limit,
                                          request'.offset, now), request'.q)]_vars

\* C3 witness: a search answered with an article while a run had one fetch
\* settled and another pending
C3_Witness ==
    /\ request.via = "handler"
    /\ request.midRefresh
    /\ response.status = 200
    /\ Len(response.articles) = 1
    /\ \E r \in RunIds : runs[r].pc = "fetching" /\ Len(runs[r].settled) = 1

\* C4: a run returns only after every fetch has settled, it returns normally
\* whichever fetches failed, and the collection it installs holds exactly
\* the urls delivered by the fetches that succeeded, each from such a source
C4_PartialFailure ==
    [][\A r \in RunIds :
          FinishStep(r)
          => LET settled == runs[r].settled
                 ok == {settled[k].feed : k \in {k \in 1..Len(settled) :
                                                 settled[k].status = "fulfilled"}}
             IN  /\ \A i \in 1..Len(feeds) :
                       \E k \in 1..Len(settled) : settled[k].feed = i
                 /\ runs'[r].pc = "writing"
                 /\ lastUpdate' = now
                 /\ {articles'[k].url : k \in 1..Len(articles')}
                      = {UsableUrl(EntryItem(settled, e)) : e \in Entries(settled)}
                 /\ \A k \in 1..Len(articles') :
                       \E i \in ok : articles'[k].source = feeds[i].source]_vars

\* C4 witness: a run has returned with one fetch failed and two succeeded,
\* and the live collection holds articles of both successful sources
C4_Witness ==
    \E r \in RunIds :
        /\ runs[r].pc = "writing"
        /\ Cardinality({k \in 1..Len(runs[r].settled) :
                           runs[r].settled[k].status = "rejected"}) = 1
        /\ Cardinality({articles[k].source : k \in 1..Len(articles)}) = 2
        /\ lastUpdate = now

\* C5: after a refresh the live collection holds, for each url among the
\* candidates, exactly one article, built from the first entry with that url
\* in source-then-entry order; no article has an empty url
C5_FirstOccurrenceKept ==
    [][\A r \in RunIds :
          FinishStep(r)
          => LET settled == runs[r].settled
                 entries == Entries(settled)
                 urlOf(e) == UsableUrl(EntryItem(settled, e))
             IN  /\ \A k \in 1..Len(articles') :
                       /\ articles'[k].url # ""
                       /\ \E e \in entries : urlOf(e) = articles'[k].url
                 /\ \A e \in entries :
                       (\A f \in entries : urlOf(f) = urlOf(e) => EntryBefore(e, f))
                       => /\ Cardinality({k \in 1..Len(articles') :
                                             articles'[k].url = urlOf(e)}) = 1
                          /\ \E k \in 1..Len(articles') :
                                articles'[k] =
                                  Article(EntryItem(settled, e), feeds[e[1]], now)]_vars

\* C5 witness: feeds A and B both delivered url u1 (B also u3) and the live
\* collection holds u1 once, as the article of feed A
C5_Witness ==
    \E r \in RunIds :
        /\ runs[r].pc = "writing"
        /\ \E k \in 1..Len(articles) : articles[k].url = "u3" /\ articles[k].source = "B"
        /\ \E k \in 1..Len(articles) : articles[k].url = "u1" /\ articles[k].source = "A"
        /\ Cardinality({k \in 1..Len(articles) : articles[k].url = "u1"}) = 1

\* C6: after a refresh the live collection is in descending order of
\* publication timestamp
C6_SortedAfterRefresh ==
    [][\A r \in RunIds : FinishStep(r) => IsSortedDescending(articles')]_vars

\* C7: the collection a refresh installs is the one the same fetch outcomes
\* give in every other order of completion
C7_CompletionOrderIrrelevant ==
    [][\A r \in RunIds :
          FinishStep(r)
          => LET settled == runs[r].settled
             IN  \A f \in Permutations(1..Len(settled)) :
                    installed([k \in 1..Len(settled) |-> settled[f[k]]], feeds, now)
                      = articles']_vars

\* C7 witness: a run whose last-listed feed settled first has returned, all
\* fetches fulfilled, and two articles of different sources tie on pubDate
C7_Witness ==
    \E r \in RunIds :
        /\ runs[r].pc = "writing"
        /\ Len(runs[r].settled) = 3
        /\ runs[r].settled[1].feed = 3
        /\ \A k \in 1..3 : runs[r].settled[k].status = "fulfilled"
        /\ \E k \in 1..(Len(articles) - 1) :
              /\ articles[k].pubDate = articles[k + 1].pubDate
              /\ articles[k].source # articles[k + 1].source

\* C8: for an empty or whitespace-only query search returns the articles at
\* positions offset .. offset + limit - 1 of the live collection
C8_EmptyQueryPage ==
    (request.via # "none" /\ trim(request.q) = <<>>)
    => Urls(response.articles)
         = Urls(slice(articles, request.offset, request.offset + request.limit))

\* C9: search(q, L, O) followed by search(q, L, O + L), collection and clock
\* unchanged, returns positions O .. O + 2L - 1 of the full ranked list, the
\* first L of them in the first page
C9_Pagination ==
    [][(/\ request.via # "none"
        /\ request'.via = request.via
        /\ request'.q = request.q
        /\ request'.limit = request.limit
        /\ request.limit > 0
        /\ request'.offset = request.offset + request.limit
        /\ request'.at = request.at)
       => LET full == IF trim(request.q) = <<>> THEN articles
                      ELSE ranked(articles, request.q, now)
          IN  /\ Urls(response.articles) \o Urls(response'.articles)
                   = Urls(slice(full, request.offset, request.offset + 2 * request.limit))
              /\ Urls(response.articles)
                   = Urls(slice(full, request.offset, request.offset + request.limit))]_vars

\* C10: a search returns at most limit articles, called directly with limit
\* or through /search with the limit parameter sent
C10_AtMostLimit ==
    /\ request.via = "direct" => Len(response.articles) <= request.limit
    /\ (request.via = "handler" /\ request.limitParam # <<>>)
          => Len(response.articles) <= parseInt(request.limitParam)

\* the maximal non-whitespace runs of the lower-cased query
WordsOf(q) == SelectSeq(splitWhitespace(toLowerCase(q)), LAMBDA w : w # <<>>)

\* the article of the live collection with this url
ArticleAt(url) == articles[CHOOSE k \in 1..Len(articles) : articles[k].url = url]

\* the article has a query word in its title or snippet, a keyword that
\* contains or is contained in a query word, or a category containing the
\* lower-cased query
Matches(article, q) ==
    \/ wordHits(toLowerCase(article.title), WordsOf(q)) > 0
    \/ wordHits(toLowerCase(article.snippet), WordsOf(q)) > 0
    \/ keywordHits(article.keywords, WordsOf(q)) > 0
    \/ includes(toLowerCase(article.category), toLowerCase(q))

\* C11: for a non-empty query every returned article has a title, snippet,
\* keyword or category match; an article with none of them is not returned
C11_OnlyMatchesReturned ==
    (request.via # "none" /\ trim(request.q) # <<>>)
    => \A k \in 1..Len(response.articles) :
          Matches(ArticleAt(response.articles[k].url), request.q)

\* position of the article with this url in the live collection
PositionOf(url) == CHOOSE k \in 1..Len(articles) : articles[k].url = url

\* C12: for a non-empty query the returned articles are in non-increasing
\* order of score, and returned articles of equal score are in the order
\* they have in the live collection
C12_RankedOrder ==
    (request.via # "none" /\ trim(request.q) # <<>>)
    => \A k \in 1..(Len(response.articles) - 1) :
          LET a == ArticleAt(response.articles[k].url)
              b == ArticleAt(response.articles[k + 1].url)
              sa == score(a, request.q, request.at)
              sb == score(b, request.q, request.at)
          IN  /\ sa >= sb
              /\ sa = sb => PositionOf(a.url) < PositionOf(b.url)

\* C12 witness: a search for a non-empty query returned an article followed
\* by two articles of a lower score that tie
C12_Witness ==
    /\ request.via # "none"
    /\ trim(request.q) # <<>>
    /\ LET s(k) == score(ArticleAt(response.articles[k].url), request.q, request.at)
       IN  \E k \in 1..(Len(response.articles) - 2) : s(k) > s(k + 1) /\ s(k + 1) = s(k + 2)

\* C13: /search answers 503 and not a success whenever the live collection
\* is empty, and a success with the result of search whenever it is not
C13_NotReadySignal ==
    [][(request'.via = "handler" /\ (request' # request \/ response' # response))
          => IF articles = <<>>
             THEN response'.status = 503 /\ response'.articles = <<>>
             ELSE /\ response'.status = 200
                  /\ Urls(response'.articles)
                       = Urls(search(articles, request'.q, request'.limit,
                                     request'.offset, now))]_vars

\* C13 witness: /search answered 503 after a refresh, all of whose fetches
\* failed, had emptied the collection
C13_Witness ==
    /\ request.via = "handler"
    /\ response.status = 503
    /\ articles = <<>>
    /\ lastUpdate # Null
    /\ started >= 1

\* C14: saveToFile followed by loadFromFile restores the live collection,
\* every field of every article and the order, and lastUpdate
C14_RoundTrip ==
    LET file == stringify(articles, lastUpdate)
    IN  /\ parsedArticles(file) = articles
        /\ newDate(file.lastUpdate) = lastUpdate

\* C15: a failed cache write leaves the live collection and lastUpdate as
\* they were, the refresh around it ends as a success, and the server goes
\* on serving
C15_WriteFailureHarmless ==
    [][\A r \in RunIds :
          (runs[r].pc = "writing" /\ runs'[r].pc = "idle" /\ cacheFile' # runs[r].data)
          => /\ articles' = articles
             /\ lastUpdate' = lastUpdate
             /\ runs'[r].outcome = "success"
             /\ initPc' = "serving"]_vars

\* C15 witness: the one refresh so far has ended with its cache write failed
\* (the file is left truncated), and a search issued after it was answered
\* from the collection that refresh installed
C15_Witness ==
    /\ cacheFile = Malformed
    /\ started = 1
    /\ \A r \in RunIds : runs[r].pc = "idle"
    /\ request.via = "handler"
    /\ ~request.midRefresh
    /\ response.status = 200
    /\ Urls(response.articles)
         # Urls(search(parsedArticles(EarlierCache), request.q, request.limit,
                       request.offset, request.at))

\* C16: in every page of the feed view at most articlesPerInterest articles
\* were taken for each interest, and at most totalArticles are shown
C16_PageLimits ==
    \A p \in 1..Len(feedElement) :
        /\ \A i \in 1..Len(settings.interests) :
              Cardinality({k \in 1..Len(feedElement[p].taken) :
                              feedElement[p].taken[k].interest = settings.interests[i]})
                <= settings.articlesPerInterest
        /\ Len(feedElement[p].articles) <= settings.totalArticles

\* C16 witness: a page for two interests, each with articlesPerInterest
\* articles taken, of which totalArticles, fewer than were taken, are shown
C16_Witness ==
    /\ Len(settings.interests) = 2
    /\ Len(feedElement) >= 1
    /\ \A i \in 1..2 :
          Cardinality({k \in 1..Len(feedElement[1].taken) :
                          feedElement[1].taken[k].interest = settings.interests[i]})
            = settings.articlesPerInterest
    /\ Len(feedElement[1].taken) > settings.totalArticles
    /\ Len(feedElement[1].articles) = settings.totalArticles
    /\ settings.totalArticles > 0

\* a run of fetchAllFeeds has started or ended
SomeRun == \E r \in RunIds : runs[r].pc # "idle" \/ runs[r].outcome # "none"

\* a request was handled or a refresh (manual or timer) was accepted
SomeRequest == request # NoRequest \/ response # NoResponse \/ started > 0

RecencyBoost(pubDate, t) ==
    IF pubDate = NaN THEN 0
    ELSE IF t - pubDate < MsPerDay THEN 2
    ELSE IF t - pubDate < 7 * MsPerDay THEN 1 ELSE 0

\* C18: for a non-empty query the score search gives an article is
\* 10 x (query words in the title) + 5 x (query words in the snippet)
\* + 3 x (keyword/query-word pairs, one containing the other)
\* + 7 if the category contains the lower-cased query + the recency boost,
\* the query words being the maximal non-whitespace runs of the lower-cased
\* query
C18_ScoreFormula ==
    (request.via # "none" /\ trim(request.q) # <<>>)
    => \A k \in 1..Len(articles) :
          score(articles[k], request.q, request.at)
            = 10 * wordHits(toLowerCase(articles[k].title), WordsOf(request.q))
              + 5 * wordHits(toLowerCase(articles[k].snippet), WordsOf(request.q))
              + 3 * keywordHits(articles[k].keywords, WordsOf(request.q))
              + (IF includes(toLowerCase(articles[k].category), toLowerCase(request.q))
                 THEN 7 ELSE 0)
              + RecencyBoost(articles[k].pubDate, request.at)

\* C19: every article a refresh creates has a valid publication timestamp:
\* the parsed date of its entry when the date string parses, the time of
\* the fetch when the string is absent or does not parse
C19_ValidPubDate ==
    [][\A r \in RunIds :
          FinishStep(r)
          => LET settled == runs[r].settled
                 entries == Entries(settled)
                 urlOf(e) == UsableUrl(EntryItem(settled, e))
                 dateOf(e) == EntryItem(settled, e).pubDate
             IN  /\ \A k \in 1..Len(articles') : articles'[k].pubDate # NaN
                 /\ \A e \in entries :
                       (\A f \in entries : urlOf(f) = urlOf(e) => EntryBefore(e, f))
                       => \E k \in 1..Len(articles') :
                             /\ articles'[k].url = urlOf(e)
                             /\ articles'[k].pubDate =
                                  IF dateOf(e) # "" /\ DateParse(dateOf(e)) # NaN
                                  THEN DateParse(dateOf(e)) ELSE now]_vars

\* the url of a media object, in the attribute object $ or as a property
UrlOfMedia(m) == IF m.dollar /\ m.attrs.url # <<>> THEN m.attrs.url ELSE m.url
MediumOfMedia(m) == IF m.dollar THEN m.attrs.medium ELSE m.medium

\* rule (a): the media:content entries that carry a url and whose medium is
\* absent or "image"
ImageEntries(item) ==
    {k \in 1..Len(item.mediaContent) :
        /\ UrlOfMedia(item.mediaContent[k]) # <<>>
        /\ MediumOfMedia(item.mediaContent[k]) \in {"", "image"}}

\* rule (d): the src of the first <img ...> of the entry's html
FirstImgSrc(html) ==
    LET lower == toLowerCase(html)
        tags == {p \in 1..(Len(html) - 3) : SubSeq(lower, p, p + 3) = <<"<", "i", "m", "g">>}
    IN  IF tags = {} THEN <<>>
        ELSE LET p == CHOOSE x \in tags : \A y \in tags : x <= y
                 srcs == {j \in p..(Len(html) - 4) : SubSeq(lower, j, j + 3) = <<"s", "r", "c", "=">>}
                 j == CHOOSE x \in srcs : \A y \in srcs : x <= y
             IN  IF srcs = {} THEN <<>> ELSE captureFrom(html, j + 5)

\* the image url the rules (a) .. (e) give, in their order
ImageByPriority(item) ==
    IF ImageEntries(item) # {}
    THEN UrlOfMedia(item.mediaContent[CHOOSE k \in ImageEntries(item) :
                                          \A m \in ImageEntries(item) : k <= m])
    ELSE IF item.mediaThumbnail # <<>> /\ UrlOfMedia(item.mediaThumbnail[1]) # <<>>
    THEN UrlOfMedia(item.mediaThumbnail[1])
    ELSE IF item.enclosure # <<>> /\ item.enclosure[1].url # <<>>
            /\ startsWith(item.enclosure[1].type, <<"i", "m", "a", "g", "e", "/">>)
    THEN item.enclosure[1].url
    ELSE IF FirstImgSrc(item.content) # <<>> THEN FirstImgSrc(item.content)
    ELSE FirstImgSrc(item.description)

C21_SearchReadOnly ==
    [][(request' # request \/ response' # response)
          => articles' = articles /\ lastUpdate' = lastUpdate]_vars

\* C21 witness: a search for a non-empty query has returned two articles in
\* the reverse of their order in the live collection
C21_Witness ==
    /\ request.via # "none"
    /\ trim(request.q) # <<>>
    /\ \E k \in 1..(Len(response.articles) - 1) :
          PositionOf(response.articles[k].url) > PositionOf(response.articles[k + 1].url)

\* the executions of loadFeed past the isLoading gate
InFlight == {l \in LoadIds : loads[l].pc # "idle"}

\* C22: at most one execution of loadFeed is past the isLoading gate; a call
\* of loadFeed or loadMoreArticles made meanwhile returns without fetching
\* and without changing currentPage or loadedArticles; and an execution that
\* has set isLoading sets it back to false, its fetches answered or failed
C22_IsLoadingGate ==
    /\ [](Cardinality(InFlight) <= 1 /\ (isLoading <=> InFlight # {}))
    /\ [][(isLoading /\ lastCall' # lastCall)
             => /\ lastCall' = "loading"
                /\ loads' = loads
                /\ currentPage' = currentPage
                /\ loadedArticles' = loadedArticles
                /\ feedElement' = feedElement
                /\ isLoading']_vars
    /\ (isLoading ~> ~isLoading)

\* C22 witness: a call was turned away at the gate while the execution in
\* flight, its first fetch over, awaited its second
C22_Witness ==
    /\ isLoading
    /\ lastCall = "loading"
    /\ \E l \in LoadIds : loads[l].pc = "fetching" /\ loads[l].next = 2

\* the urls rendered, page after page and in the order of each page
RenderedUrls(p) == [k \in 1..Len(feedElement[p].articles) |-> feedElement[p].articles[k].url]

\* the urls the server offers now for interest number i and page number p
OfferedUrls(i, p) ==
    LET reply == searchResponse(settings.interests[i], decimal(settings.articlesPerInterest),
                                decimal((p - 1) * settings.articlesPerInterest))
    IN  IF reply.status = 200
        THEN {reply.articles[k].url : k \in 1..Len(reply.articles)}
        ELSE {}

\* C23: from one fresh loadFeed to the next no url is rendered twice, on one
\* page or on two, for one interest or for two, and every url rendered is in
\* loadedArticles; a fresh loadFeed that passes the gate empties
\* loadedArticles and sets currentPage to 0
C23_NoUrlRenderedTwice ==
    /\ [](/\ \A p, q \in 1..Len(feedElement) :
               \A j \in 1..Len(RenderedUrls(p)), k \in 1..Len(RenderedUrls(q)) :
                  RenderedUrls(p)[j] = RenderedUrls(q)[k] => (p = q /\ j = k)
          /\ \A p \in 1..Len(feedElement) :
               \A k \in 1..Len(RenderedUrls(p)) : RenderedUrls(p)[k] \in loadedArticles)
    /\ [][\A l \in LoadIds :
             (loads[l].pc = "idle" /\ loads'[l].pc = "fetching" /\ ~loads'[l].loadMore)
                => (loadedArticles' = {} /\ currentPage' = 0)]_vars

\* C23 witness: two pages are rendered, and a url rendered on the first was
\* offered again by the server for the second page, for another interest
C23_Witness ==
    /\ Len(feedElement) = 2
    /\ ~isLoading
    /\ feedElement[2].articles # <<>>
    /\ \E k \in 1..Len(feedElement[1].articles) :
          \E i \in 1..Len(settings.interests) :
             /\ settings.interests[i] # feedElement[1].articles[k].interest
             /\ feedElement[1].articles[k].url \in OfferedUrls(i, 2)

====
